---- MODULE Spec2Model ----
(***************************************************************************)
(* A model of the echoline web application: the chapter ordering and       *)
(* navigation (app/routers/chapters.py), the chapter admin forms           *)
(* (app/routers/admin/router.py), the password-reset token lifecycle and   *)
(* the login redirects (app/routers/auth.py) and the read-event marker     *)
(* (app/routers/telemetry.py).                                             *)
(*                                                                         *)
(* Text values (slugs, titles, emails, return paths) are sequences of      *)
(* one-character strings, so that the conversions applied to them          *)
(* (strip, lower, slugify, urlparse) are computed character by character.  *)
(* A nullable column or an optional value is <<>> (NULL) or <<v>>.         *)
(* Timestamps are integers (one unit = one hour) and are assumed to be     *)
(* comparable, as they are when the driver returns naive UTC datetimes.    *)
(***************************************************************************)
EXTENDS Integers, Sequences, FiniteSets, Bags, TLC

NULL == <<>>
Some(v) == <<v>>
IsNull(o) == o = <<>>
Val(o) == o[1]

(***************************************************************************)
(* Bounds of the model.                                                    *)
(***************************************************************************)
MaxChapters == 3
NumWorkers == 2
MaxTokens == 2
MaxTicks == 2
MaxNextLen == 2

(***************************************************************************)
(* Program constants.                                                      *)
(***************************************************************************)
SENTINEL == 1000000000
gate_threshold == 5
RESET_TTL_HOURS == 2
MIN_PASSWORD_LEN == 8

VARIABLES
    chapters,         \* the chapters table: a set of rows [id, slug, display_order]
    view,             \* the request answered by the last step, with its response
    users,            \* the users table: a set of rows [id, email, password_hash]
    password_resets,  \* the password_resets table (committed rows):
                      \*   [user_id, token, expires_at, used_at]
    now,              \* the clock read by _now()
    next_token,       \* the number of tokens secrets.token_urlsafe has produced
    redeemed,         \* history: per token, how many commits changed a password with it
    inflight,         \* the handlers now running in the thread pool: a bag of
                      \*   records [op, at, ...locals], at the statement reached
    session,          \* request.session of the one browser: its keys
                      \*   "user_id" and "user", each NULL while absent
    read_events       \* the read_events table: a bag of rows [user_id, chapter_id]

dbvars == <<users, password_resets, now, next_token, redeemed>>
workers == <<inflight>>
web == <<session, read_events>>
vars == <<chapters, view, users, password_resets, now, next_token, redeemed, inflight,
          session, read_events>>

(***************************************************************************)
(* Text helpers.                                                           *)
(***************************************************************************)
IsSpace(c) == c \in {" ", "\t"}
IsUpper(c) == c \in {"A", "B"}
IsWord(c) == c \in {"a", "b", "e", "A", "B", "_", "0"}

LowerChar(c) == IF c = "A" THEN "a" ELSE IF c = "B" THEN "b" ELSE c

RECURSIVE Lower(_)
Lower(s) == IF s = <<>> THEN <<>> ELSE <<LowerChar(Head(s))>> \o Lower(Tail(s))

RECURSIVE LStrip(_)
LStrip(s) == IF s # <<>> /\ IsSpace(Head(s)) THEN LStrip(Tail(s)) ELSE s

RECURSIVE RStrip(_)
RStrip(s) ==
    IF s # <<>> /\ IsSpace(s[Len(s)]) THEN RStrip(SubSeq(s, 1, Len(s) - 1)) ELSE s

Strip(s) == RStrip(LStrip(s))

(***************************************************************************)
(* app/routers/admin/router.py: slugify and the form-value parsers.        *)
(***************************************************************************)
\* unicodedata.normalize("NFKD", ..).encode("ascii", "ignore"): an accented
\* letter keeps its base letter, any other non-ASCII character is dropped.
\* ("e-acute" and "cjk" stand for one non-ASCII character each.)
AsciiFold(c) == IF c = "e-acute" THEN <<"e">> ELSE IF c = "cjk" THEN <<>> ELSE <<c>>

RECURSIVE NfkdAscii(_)
NfkdAscii(s) ==
    IF s = <<>> THEN <<>> ELSE AsciiFold(Head(s)) \o NfkdAscii(Tail(s))

\* _slug_strip_re = [^\w\s-] is removed
SlugStrip(s) == SelectSeq(s, LAMBDA c : IsWord(c) \/ IsSpace(c) \/ c = "-")

\* _slug_hyphenate_re = [-\s]+ becomes one "-"
IsSep(c) == c = "-" \/ IsSpace(c)

RECURSIVE SkipSeps(_)
SkipSeps(s) == IF s # <<>> /\ IsSep(Head(s)) THEN SkipSeps(Tail(s)) ELSE s

RECURSIVE SlugHyphenate(_)
SlugHyphenate(s) ==
    IF s = <<>> THEN <<>>
    ELSE IF IsSep(Head(s)) THEN <<"-">> \o SlugHyphenate(SkipSeps(s))
    ELSE <<Head(s)>> \o SlugHyphenate(Tail(s))

slugify(value) ==
    IF value = <<>> THEN <<>>
    ELSE SlugHyphenate(Lower(Strip(SlugStrip(NfkdAscii(value)))))

\* A form value of display_order: absent or blank, an integer literal, or
\* something int() rejects.
FormBlank == [kind |-> "blank"]
FormJunk == [kind |-> "junk"]
FormInt(n) == [kind |-> "int", n |-> n]

to_int_or_none(v) ==
    IF v.kind = "blank" THEN NULL
    ELSE IF v.kind = "int" THEN Some(v.n)
    ELSE NULL

\* (slug or "").strip()
SlugField(slug) == IF IsNull(slug) THEN <<>> ELSE Strip(Val(slug))

\* a or b on strings
OrElse(a, b) == IF a # <<>> THEN a ELSE b

(***************************************************************************)
(* Inputs of the chapter requests.                                         *)
(***************************************************************************)
\* The (title, slug) fields of a chapter form: a title that slugifies to
\* "a", a blank slug with a title that slugifies to "a-b", a slug given with
\* trailing space, neither a slug nor a title with a word character, and an
\* accented title.
Forms ==
    { [title |-> <<"A">>, slug |-> NULL],
      [title |-> <<"a", " ", "b">>, slug |-> Some(<<" ">>)],
      [title |-> <<"A">>, slug |-> Some(<<"b", " ">>)],
      [title |-> <<"!", "cjk">>, slug |-> NULL],
      [title |-> <<"e-acute">>, slug |-> NULL] }
OrderValues == { 1, 2 * SENTINEL }
OrderInputs == { FormBlank } \cup { FormInt(n) : n \in OrderValues }
PathSlugs == { <<"a">>, <<"b">>, <<"a", "-", "b">>, <<"e">>, <<"0">> }
ChapterIds == 1 .. MaxChapters + 1

(***************************************************************************)
(* app/routers/chapters.py: the ordering and the two pages.                *)
(***************************************************************************)
\* func.coalesce(Chapter.display_order, 1_000_000_000)
_ord_key(c) == IF IsNull(c.display_order) THEN SENTINEL ELSE Val(c.display_order)

\* ORDER BY _ord_key() ASC, id ASC: a comes before b
OrderedBefore(a, b) ==
    \/ _ord_key(a) < _ord_key(b)
    \/ _ord_key(a) = _ord_key(b) /\ a.id < b.id

FirstAsc(rows) == CHOOSE x \in rows : \A y \in rows \ {x} : OrderedBefore(x, y)
FirstDesc(rows) == CHOOSE x \in rows : \A y \in rows \ {x} : OrderedBefore(y, x)

RECURSIVE OrderByKeyId(_)
OrderByKeyId(rows) ==
    IF rows = {} THEN <<>>
    ELSE LET m == FirstAsc(rows) IN <<m>> \o OrderByKeyId(rows \ {m})

Ids(rowseq) == [i \in 1 .. Len(rowseq) |-> rowseq[i].id]

list_chapters ==
    /\ view' = [status |-> 200, template |-> "pages/chapters.html",
                chapters |-> Ids(OrderByKeyId(chapters))]
    /\ UNCHANGED <<chapters, dbvars, workers, web>>

\* .first() of a query: NULL when no row matches
FirstOrNull(rows, pick(_)) == IF rows = {} THEN NULL ELSE Some(pick(rows).id)

PrevQueryAsc(rows, cur_key, cur_id) ==
    FirstOrNull({c \in rows : \/ _ord_key(c) < cur_key
                              \/ _ord_key(c) = cur_key /\ c.id < cur_id}, FirstAsc)

PrevQuery(rows, cur_key, cur_id) ==
    FirstOrNull({c \in rows : \/ _ord_key(c) < cur_key
                              \/ _ord_key(c) = cur_key /\ c.id < cur_id}, FirstDesc)

NextQuery(rows, cur_key, cur_id) ==
    FirstOrNull({c \in rows : \/ _ord_key(c) > cur_key
                              \/ _ord_key(c) = cur_key /\ c.id > cur_id}, FirstAsc)

NotFoundPage == [status |-> 404, template |-> "pages/not_found.html"]

\* app/main.py, handle_unauthorized: what the client receives when a handler
\* raises HTTPException(401).  The request is a GET without a query string;
\* accepts_html is whether its Accept header holds "text/html".
LoginPath == <<"/", "a", "u", "t", "h", "/", "l", "o", "g", "i", "n">>

ChapterPath(slug) == <<"/", "c", "h", "a", "p", "t", "e", "r", "s", "/">> \o slug

handle_unauthorized(path, accepts_html) ==
    IF accepts_html
    THEN [status |-> 303, location |-> LoginPath, next |-> path]
    ELSE [status |-> 401, detail |-> "Unauthorized"]

Gated(chapter) ==
    /\ ~IsNull(chapter.display_order)
    /\ Val(chapter.display_order) > gate_threshold

show_chapter(slug, state_user, accepts_html) ==
    /\ UNCHANGED <<chapters, dbvars, workers, web>>
    /\ LET found == {c \in chapters : c.slug = slug} IN
       IF found = {} THEN view' = NotFoundPage
       ELSE LET chapter == CHOOSE c \in found : TRUE IN
            IF Gated(chapter) /\ ~state_user
            THEN view' = handle_unauthorized(ChapterPath(slug), accepts_html)
            ELSE LET cur_key == _ord_key(chapter) IN
                 view' = [status |-> 200, template |-> "pages/chapter_detail.html",
                          chapter |-> chapter.id,
                          prev |-> PrevQuery(chapters, cur_key, chapter.id),
                          next |-> NextQuery(chapters, cur_key, chapter.id)]

(***************************************************************************)
(* app/routers/admin/router.py: chapter_create and chapter_update.         *)
(***************************************************************************)
FormError(mode, error) ==
    [status |-> 400, template |-> "admin/chapter_form.html", mode |-> mode, error |-> error]

ToDashboard == [status |-> 303, location |-> "/admin/dashboard"]

chapter_create(title, slug, display_order) ==
    /\ UNCHANGED <<dbvars, workers, web>>
    /\ LET final_slug == OrElse(SlugField(slug), slugify(title)) IN
       IF final_slug = <<>> THEN
           /\ view' = FormError("new", "Could not generate a slug from the title.")
           /\ UNCHANGED chapters
       ELSE IF \E c \in chapters : c.slug = final_slug THEN
           /\ view' = FormError("new", "Slug already exists. Choose a different slug.")
           /\ UNCHANGED chapters
       ELSE
           /\ Cardinality(chapters) < MaxChapters
           /\ chapters' = chapters \cup
                  {[id |-> Cardinality(chapters) + 1, slug |-> final_slug,
                    display_order |-> to_int_or_none(display_order)]}
           /\ view' = ToDashboard

chapter_update(chapter_id, title, slug, display_order) ==
    /\ UNCHANGED <<dbvars, workers, web>>
    /\ LET found == {c \in chapters : c.id = chapter_id} IN
       IF found = {} THEN
           /\ view' = NotFoundPage
           /\ UNCHANGED chapters
       ELSE
           LET ch == CHOOSE c \in found : TRUE
               new_slug == OrElse(OrElse(SlugField(slug), slugify(title)), ch.slug)
           IN
           IF new_slug # ch.slug /\ \E c \in chapters : c.slug = new_slug THEN
               /\ view' = FormError("edit", "Slug is already in use.")
               /\ UNCHANGED chapters
           ELSE
               /\ chapters' = (chapters \ {ch}) \cup
                      {[id |-> ch.id, slug |-> new_slug,
                        display_order |-> to_int_or_none(display_order)]}
               /\ view' = ToDashboard

(***************************************************************************)
(* The chapters specification: the admin edits the table, readers list    *)
(* and open chapters.                                                      *)
(***************************************************************************)
NoView == [status |-> 0]
Tokens == 1 .. MaxTokens

IdleWorkers == inflight = EmptyBag
\* a session without keys
EmptySession == [user_id |-> NULL, user |-> NULL]
NoSession == session = EmptySession /\ read_events = EmptyBag

EmptyDb ==
    /\ users = {}
    /\ password_resets = {}
    /\ now = 0
    /\ next_token = 1
    /\ redeemed = [t \in Tokens |-> 0]

InitChapters ==
    /\ chapters = {}
    /\ view = NoView
    /\ EmptyDb
    /\ IdleWorkers
    /\ NoSession

CreateChapter ==
    \E f \in Forms, d \in OrderInputs \cup {FormJunk} : chapter_create(f.title, f.slug, d)

UpdateChapter ==
    \E i \in ChapterIds, f \in Forms, d \in OrderInputs :
        chapter_update(i, f.title, f.slug, d)

ListChapters == list_chapters

ShowChapter == \E s \in PathSlugs, u \in BOOLEAN, a \in BOOLEAN : show_chapter(s, u, a)

NextChapters == CreateChapter \/ UpdateChapter \/ ListChapters \/ ShowChapter

SpecChapters == InitChapters /\ [][NextChapters]_vars

(***************************************************************************)
(* Properties of the chapter pages.                                        *)
(***************************************************************************)
IsListing == view.status = 200 /\ "chapters" \in DOMAIN view
IsDetail == view.status = 200 /\ "prev" \in DOMAIN view
ChapterById(i) == CHOOSE c \in chapters : c.id = i
Keyed(c) == ~IsNull(c.display_order)

\* C1: the listing holds every chapter once, every chapter with a set
\* display_order before every chapter with a null one, and inside each of
\* the two groups by ascending display_order, then ascending id.
C1_KeyedBeforeUnkeyed ==
    IsListing =>
        LET L == view.chapters IN
        /\ Len(L) = Cardinality(chapters)
        /\ {L[i] : i \in 1 .. Len(L)} = {c.id : c \in chapters}
        /\ \A i, j \in 1 .. Len(L) :
              i < j =>
                LET a == ChapterById(L[i])
                    b == ChapterById(L[j])
                IN
                \/ Keyed(a) /\ ~Keyed(b)
                \/ /\ Keyed(a) /\ Keyed(b)
                   /\ \/ Val(a.display_order) < Val(b.display_order)
                      \/ Val(a.display_order) = Val(b.display_order) /\ a.id < b.id
                \/ ~Keyed(a) /\ ~Keyed(b) /\ a.id < b.id

\* C2: the detail page of the chapter at position i of the listing order
\* shows the chapter at position i-1 as prev and the one at i+1 as next,
\* and an absent value at either end.
C2_PrevNextArePositions ==
    IsDetail =>
        LET L == Ids(OrderByKeyId(chapters))
            i == CHOOSE k \in 1 .. Len(L) : L[k] = view.chapter
        IN
        /\ view.prev = (IF i = 1 THEN NULL ELSE Some(L[i - 1]))
        /\ view.next = (IF i = Len(L) THEN NULL ELSE Some(L[i + 1]))

C2_Witness ==
    /\ IsDetail
    /\ Cardinality(chapters) = 3
    /\ ~IsNull(view.prev) /\ ~IsNull(view.next)
    /\ \E c \in chapters : ~Keyed(c)
    /\ \E c \in chapters : Keyed(c)

\* C14: an anonymous request for a chapter whose ordering key (display_order
\* if set, otherwise the sentinel) is above the threshold 5 is answered with
\* a redirect to /auth/login whose next is the requested path, and the
\* chapter page is not rendered.
C14_GateOnOrderingKey ==
    [][\A s \in PathSlugs, a \in BOOLEAN :
          (/\ show_chapter(s, FALSE, a)
           /\ \E c \in chapters : c.slug = s /\ _ord_key(c) > gate_threshold)
          => view' = [status |-> 303, location |-> LoginPath, next |-> ChapterPath(s)]
      ]_vars

\* C14, restricted to chapters whose display_order is set and to requests
\* that accept text/html.
C14_GateOnDisplayOrder ==
    [][\A s \in PathSlugs :
          (/\ show_chapter(s, FALSE, TRUE)
           /\ \E c \in chapters : c.slug = s /\ Gated(c))
          => view' = [status |-> 303, location |-> LoginPath, next |-> ChapterPath(s)]
      ]_vars

(***************************************************************************)
(* app/utils/security.py is not part of the sources at hand: a hash is     *)
(* modelled as a tagged copy of the password that verifies only against    *)
(* that password.                                                          *)
(***************************************************************************)
hash_password(password) == <<"hash", password>>
verify_password(password, password_hash) == password_hash = hash_password(password)

(***************************************************************************)
(* app/routers/auth.py: the password-reset token lifecycle.                *)
(*                                                                         *)
(* Handlers run in a thread pool, one database transaction each, against   *)
(* a READ COMMITTED database: a handler that writes in more than one       *)
(* statement, or reads and then commits, is split at those points.  A      *)
(* worker is idle or inside a handler.  The step that ends a handler sets  *)
(* view to the request and its response; every other step clears view.     *)
(***************************************************************************)
\* (email or "").strip().lower()
NormEmail(email) == Lower(Strip(email))

UserByEmail(email_norm) == {u \in users : u.email = email_norm}

ForgotPage ==
    [status |-> 200, template |-> "auth/forgot.html",
     message |-> "If that email exists, we've sent a reset link. Check your inbox."]

\* the response of forgot_submit; user is NULL or the matching user's id
forgot_response_leaky(user) ==
    IF IsNull(user)
    THEN [status |-> 200, template |-> "auth/forgot.html",
          message |-> "No account uses that email."]
    ELSE ForgotPage

forgot_response(user) == ForgotPage

\* a worker of the pool is free to take a request
WorkerFree == BagCardinality(inflight) < NumWorkers
Running == BagToSet(inflight)
Start(h) == inflight' = inflight (+) SetToBag({h})
Advance(h, g) == inflight' = (inflight (-) SetToBag({h})) (+) SetToBag({g})
End(h) == inflight' = inflight (-) SetToBag({h})

\* forgot_submit up to the commit: the user lookup, the DELETE of the
\* user's rows (the rows it matched are removed when the transaction
\* commits), the new token and its expiry.
forgot_submit_begin(email) ==
    /\ WorkerFree
    /\ UNCHANGED <<chapters, users, password_resets, now, redeemed, web>>
    /\ LET email_norm == NormEmail(email)
           found == UserByEmail(email_norm)
       IN
       IF found = {} THEN
           /\ view' = [op |-> "forgot_submit", user |-> NULL,
                       response |-> forgot_response(NULL)]
           /\ UNCHANGED <<next_token, workers>>
       ELSE
           LET user == CHOOSE u \in found : TRUE IN
           /\ next_token <= MaxTokens
           /\ next_token' = next_token + 1
           /\ Start([op |-> "forgot_submit", at |-> "commit", user |-> Some(user.id),
                     deleted |-> {r.token : r \in {x \in password_resets : x.user_id = user.id}},
                     token |-> next_token,
                     expires_at |-> now + RESET_TTL_HOURS])
           /\ view' = NoView

\* db.commit() of forgot_submit, and the response
forgot_submit_commit(h) ==
    /\ h.op = "forgot_submit" /\ h.at = "commit"
    /\ password_resets' =
          {r \in password_resets : r.token \notin h.deleted} \cup
          {[user_id |-> Val(h.user), token |-> h.token,
            expires_at |-> Some(h.expires_at), used_at |-> NULL]}
    /\ view' = [op |-> "forgot_submit", user |-> h.user,
                response |-> forgot_response(h.user)]
    /\ End(h)
    /\ UNCHANGED <<chapters, users, now, next_token, redeemed, web>>

ResetPage(status, error, token) ==
    [status |-> status, template |-> "auth/reset.html", error |-> error, token |-> token]

MissingTokenPage == ResetPage(400, "Missing token.", NULL)
InvalidResetPage ==
    ResetPage(400, "This reset link is invalid or has expired. Please request a new one.", NULL)
\* The variant that does not hand the token back to the form.
WeakPasswordPageNoToken(token) == ResetPage(400, "Password must be at least 8 characters.", NULL)

WeakPasswordPage(token) == ResetPage(400, "Password must be at least 8 characters.", token)
MismatchPage(token) == ResetPage(400, "Passwords do not match.", token)
AccountNotFoundPage == ResetPage(400, "Account not found.", NULL)
ResetFormPage(token) == ResetPage(200, "", token)
ResetDone == [status |-> 303, location |-> "/auth/login?reset=1"]
ServerError == [status |-> 500]

AnyByToken(token) == {r \in password_resets : r.token = Val(token)}

\* .filter(token == token).filter(used_at.is_(None))
UsedOrUnusedByToken(token) == AnyByToken(token)

UnusedByToken(token) == {r \in AnyByToken(token) : IsNull(r.used_at)}

\* pr.expires_at < _now()
ExpiredReversed(pr, t) == Val(pr.expires_at) > t

Expired(pr, t) == Val(pr.expires_at) < t

\* "not pr or pr.expires_at < _now()", pr the first row of the query
NoLiveRowNoExpiry(token, t) == UnusedByToken(token) = {}

NoLiveRow(token, t) ==
    UnusedByToken(token) = {} \/ Expired(CHOOSE r \in UnusedByToken(token) : TRUE, t)

reset_form(token) ==
    /\ WorkerFree
    /\ UNCHANGED <<chapters, dbvars, workers, web>>
    /\ view' = [op |-> "reset_form", token |-> token,
                response |-> IF IsNull(token) THEN MissingTokenPage
                             ELSE IF NoLiveRow(token, now) THEN InvalidResetPage
                             ELSE ResetFormPage(token)]

\* reset_submit up to "Set new password": every check, and the user lookup
reset_submit_begin(token, password, password_confirm) ==
    /\ WorkerFree
    /\ UNCHANGED <<chapters, dbvars, web>>
    /\ LET Reject(response) ==
               /\ view' = [op |-> "reset_submit", token |-> token, response |-> response]
               /\ UNCHANGED workers
       IN
       IF IsNull(token) THEN Reject(MissingTokenPage)
       ELSE IF NoLiveRow(token, now) THEN Reject(InvalidResetPage)
       ELSE IF password = "" \/ Len(password) < MIN_PASSWORD_LEN
            THEN Reject(WeakPasswordPage(token))
       ELSE IF password # password_confirm THEN Reject(MismatchPage(token))
       ELSE
           LET pr == CHOOSE r \in UnusedByToken(token) : TRUE IN
           IF {u \in users : u.id = pr.user_id} = {} THEN Reject(AccountNotFoundPage)
           ELSE
               /\ Start([op |-> "reset_submit", at |-> "commit", token |-> token,
                         user_id |-> pr.user_id, password |-> password])
               /\ view' = NoView

(***************************************************************************)
(* app/models/password_reset.py: the helpers of the PasswordReset class.   *)
(***************************************************************************)
is_used(pr) == ~IsNull(pr.used_at)
is_expired(pr, at) == IF IsNull(pr.expires_at) THEN FALSE ELSE at >= Val(pr.expires_at)
can_redeem(pr, at) == ~is_used(pr) /\ ~is_expired(pr, at)

\* pr.used_at = _now(): the column is only ever read through "is None", so
\* the model keeps that it is set and drops the time of day
UsedAt(t) == Some("set")

\* A row another transaction has deleted and not yet committed is locked:
\* an UPDATE of it waits for that transaction.
LockedByDelete(token) ==
    \E g \in Running : "deleted" \in DOMAIN g /\ token \in g.deleted

\* A redemption that changes the password and leaves used_at unset.
reset_submit_commit_password_only(h) ==
    /\ h.op = "reset_submit" /\ h.at = "commit"
    /\ users' = {IF u.id = h.user_id
                   THEN [u EXCEPT !.password_hash = hash_password(h.password)]
                   ELSE u : u \in users}
    /\ redeemed' = [redeemed EXCEPT ![Val(h.token)] = @ + 1]
    /\ Advance(h, [h EXCEPT !.at = "cleanup"])
    /\ view' = NoView
    /\ UNCHANGED <<chapters, password_resets, now, next_token, web>>

\* A redemption that writes the new hash into every user's row.
reset_submit_commit_all_users(h) ==
    /\ h.op = "reset_submit" /\ h.at = "commit"
    /\ ~LockedByDelete(Val(h.token))
    /\ UNCHANGED <<chapters, now, next_token, web>>
    /\ IF AnyByToken(h.token) = {} THEN
           /\ view' = [op |-> "reset_submit", token |-> h.token, response |-> ServerError]
           /\ End(h)
           /\ UNCHANGED <<users, password_resets, redeemed>>
       ELSE
           /\ users' = {[u EXCEPT !.password_hash = hash_password(h.password)] : u \in users}
           /\ password_resets' = {IF r.token = Val(h.token)
                                    THEN [r EXCEPT !.used_at = UsedAt(now)]
                                    ELSE r : r \in password_resets}
           /\ redeemed' = [redeemed EXCEPT ![Val(h.token)] = @ + 1]
           /\ Advance(h, [h EXCEPT !.at = "cleanup"])
           /\ view' = NoView

\* user.password_hash = ...; pr.used_at = _now(); db.commit().  The ORM
\* updates both rows by primary key; when the token row is gone the flush
\* fails and the transaction is rolled back.
reset_submit_commit(h) ==
    /\ h.op = "reset_submit" /\ h.at = "commit"
    /\ ~LockedByDelete(Val(h.token))
    /\ UNCHANGED <<chapters, now, next_token, web>>
    /\ IF AnyByToken(h.token) = {} THEN
           /\ view' = [op |-> "reset_submit", token |-> h.token, response |-> ServerError]
           /\ End(h)
           /\ UNCHANGED <<users, password_resets, redeemed>>
       ELSE
           /\ users' = {IF u.id = h.user_id
                          THEN [u EXCEPT !.password_hash = hash_password(h.password)]
                          ELSE u : u \in users}
           /\ password_resets' = {IF r.token = Val(h.token)
                                    THEN [r EXCEPT !.used_at = UsedAt(now)]
                                    ELSE r : r \in password_resets}
           /\ redeemed' = [redeemed EXCEPT ![Val(h.token)] = @ + 1]
           /\ Advance(h, [h EXCEPT !.at = "cleanup"])
           /\ view' = NoView

\* the DELETE of the user's other unused rows: the rows it matched are
\* removed when the transaction commits
reset_submit_cleanup(h) ==
    /\ h.op = "reset_submit" /\ h.at = "cleanup"
    /\ Advance(h, [op |-> "reset_submit", at |-> "cleanup_commit", token |-> h.token,
                   user_id |-> h.user_id,
                   deleted |-> {r.token : r \in {x \in password_resets :
                                    x.user_id = h.user_id /\ IsNull(x.used_at)}}])
    /\ view' = NoView
    /\ UNCHANGED <<chapters, dbvars, web>>

\* the second db.commit() and the redirect
reset_submit_finish(h) ==
    /\ h.op = "reset_submit" /\ h.at = "cleanup_commit"
    /\ password_resets' = {r \in password_resets : r.token \notin h.deleted}
    /\ view' = [op |-> "reset_submit", token |-> h.token, response |-> ResetDone]
    /\ End(h)
    /\ UNCHANGED <<chapters, users, now, next_token, redeemed, web>>

\* time passes, one token lifetime at a time.  The clock is read only to
\* be compared with an expires_at, so it advances only while a token that
\* has not yet expired exists or is being issued: any other passage of time
\* shifts every later behaviour by the same amount.
tick ==
    /\ now < MaxTicks * RESET_TTL_HOURS
    /\ \/ \E r \in password_resets : Val(r.expires_at) >= now
       \/ \E h \in Running : h.op = "forgot_submit" /\ h.expires_at >= now
    /\ now' = now + RESET_TTL_HOURS
    /\ view' = NoView
    /\ UNCHANGED <<chapters, users, password_resets, next_token, redeemed, workers, web>>

(***************************************************************************)
(* The reset specification: two registered users, concurrent requests.     *)
(***************************************************************************)
OldPassword == "oldpass00"
EmailA == <<"a">>
EmailB == <<"b">>
EmailInputs == { <<" ", "A">>, <<"e">> }
\* a token sent by a client: none, or one of the tokens that are or will be
\* issued (one not issued yet, or deleted since, is an unknown token)
TokenInputs == { NULL } \cup { Some(t) : t \in Tokens }
PasswordForms ==
    { [password |-> "newpass01", password_confirm |-> "newpass01"],
      [password |-> "short", password_confirm |-> "short"],
      [password |-> "newpass01", password_confirm |-> "newpass02"] }

InitReset ==
    /\ chapters = {}
    /\ view = NoView
    /\ users = { [id |-> 1, email |-> EmailA, password_hash |-> hash_password(OldPassword)],
                 [id |-> 2, email |-> EmailB, password_hash |-> hash_password(OldPassword)] }
    /\ password_resets = {}
    /\ now = 0
    /\ next_token = 1
    /\ redeemed = [t \in Tokens |-> 0]
    /\ IdleWorkers
    /\ NoSession

\* A response leaves the server before the next step is taken: view is an
\* observation no handler reads, so this orders steps and loses none.
Quiet == view = NoView
Deliver ==
    /\ view # NoView
    /\ view' = NoView
    /\ UNCHANGED <<chapters, dbvars, workers, web>>

ForgotBegin == Quiet /\ \E e \in EmailInputs : forgot_submit_begin(e)
ForgotCommit == Quiet /\ \E h \in Running : forgot_submit_commit(h)
ResetForm == Quiet /\ \E t \in TokenInputs : reset_form(t)
ResetBegin ==
    /\ Quiet
    /\ \E t \in TokenInputs, f \in PasswordForms :
          reset_submit_begin(t, f.password, f.password_confirm)
ResetCommit == Quiet /\ \E h \in Running : reset_submit_commit(h)
ResetCleanup == Quiet /\ \E h \in Running : reset_submit_cleanup(h)
ResetFinish == Quiet /\ \E h \in Running : reset_submit_finish(h)
Tick == Quiet /\ tick

NextReset ==
    \/ ForgotBegin \/ ForgotCommit \/ ResetForm \/ ResetBegin
    \/ ResetCommit \/ ResetCleanup \/ ResetFinish \/ Tick \/ Deliver

SpecReset == InitReset /\ [][NextReset]_vars

(***************************************************************************)
(* Properties of the reset-token lifecycle.                                *)
(***************************************************************************)
ViewOp(v) == IF "op" \in DOMAIN v THEN v.op ELSE "none"
UserIds == {u.id : u \in users}

\* this step is reset_submit passing every check with token t
Accepted(t) ==
    /\ view' = NoView
    /\ inflight' # inflight
    /\ \E h \in BagToSet(inflight') :
          /\ h.op = "reset_submit" /\ h.at = "commit" /\ h.token = Some(t)
          /\ CopiesIn(h, inflight') > CopiesIn(h, inflight)

\* this step is reset_submit or reset_form answering at once for token t
Answered(t) ==
    /\ ViewOp(view') \in {"reset_submit", "reset_form"}
    /\ view'.token = Some(t)
    /\ inflight' = inflight

DbUnchanged == UNCHANGED <<users, password_resets, redeemed>>

C5_RedeemedOnlyBeforeExpiry ==
    [][\A t \in Tokens :
         Accepted(t) => \E r \in password_resets : r.token = t /\ can_redeem(r, now)
      ]_vars

\* C6: when forgot_submit has completed for a user, no token issued to that
\* user before is redeemable any more.
C6_OlderTokensInvalidated ==
    [][(ViewOp(view') = "forgot_submit" /\ ~IsNull(view'.user)) =>
          \A r \in password_resets' :
             (r.user_id = Val(view'.user) /\ ~is_used(r) /\ ~Expired(r, now)) =>
                r \notin password_resets
      ]_vars

\* C7: every user has at most one password_resets row that is unused and
\* unexpired.
C7_AtMostOneLiveToken ==
    \A u \in UserIds :
        Cardinality({r \in password_resets : r.user_id = u /\ can_redeem(r, now)}) <= 1

\* C10: forgot_submit answers with one and the same page whether or not the
\* email matches an account.
C10_ForgotUniform ==
    ViewOp(view) = "forgot_submit" =>
        view.response = ForgotPage

C10_Witness ==
    /\ ViewOp(view) = "forgot_submit"
    /\ IsNull(view.user)
    /\ password_resets # {}

C12_AtomicRedemption ==
    /\ \A r \in password_resets :
          is_used(r) =>
             \E u \in users :
                u.id = r.user_id /\ u.password_hash # hash_password(OldPassword)
    /\ \A r \in password_resets : ~is_used(r) => redeemed[r.token] = 0

C12_Witness ==
    /\ \E r \in password_resets :
          /\ is_used(r)
          /\ redeemed[r.token] = 1
          /\ \E u \in users :
                u.id = r.user_id /\ verify_password("newpass01", u.password_hash)
    /\ \E h \in Running : h.op = "reset_submit" /\ h.at = "cleanup"

\* C13: when a successful reset_submit completes, its user has no unused
\* password_resets row left.
C13_NoUnusedTokenLeft ==
    [][(ViewOp(view') = "reset_submit" /\ view'.response = ResetDone) =>
          \A h \in BagToSet(inflight) :
             (h.op = "reset_submit" /\ CopiesIn(h, inflight') < CopiesIn(h, inflight)) =>
                \A r \in password_resets' : r.user_id = h.user_id => is_used(r)
      ]_vars

C21_TerminalStates ==
    [][\A t \in Tokens :
          LET terminal == \E r \in password_resets :
                             r.token = t /\ (~IsNull(r.used_at) \/ Val(r.expires_at) < now)
          IN terminal =>
               /\ \A r \in password_resets' :
                     r.token = t => (~IsNull(r.used_at) \/ Val(r.expires_at) < now')
               /\ ~Accepted(t)
               /\ redeemed'[t] = redeemed[t]
      ]_vars

\* C21 for the requests that arrive once the token is used or expired: the
\* token has no unused unexpired row afterwards and no reset_submit for it
\* is accepted.
C21_TerminalForNewRequests ==
    [][\A t \in Tokens :
          LET terminal == \E r \in password_resets :
                             r.token = t /\ (~IsNull(r.used_at) \/ Val(r.expires_at) < now)
          IN terminal =>
               /\ \A r \in password_resets' :
                     r.token = t => (~IsNull(r.used_at) \/ Val(r.expires_at) < now')
               /\ ~Accepted(t)
      ]_vars

(***************************************************************************)
(* app/routers/auth.py: the return path, and the login, registration and   *)
(* logout handlers.  A URL is a sequence of characters.                    *)
(***************************************************************************)
Letters ==
    {"a", "b", "c", "d", "e", "f", "g", "h", "i", "j", "k", "l", "m",
     "n", "o", "p", "q", "r", "s", "t", "u", "v", "w", "x", "y", "z", "A", "B"}
Digits == {"0", "1", "2", "3", "4", "5", "6", "7", "8", "9"}
scheme_chars == Letters \cup Digits \cup {"+", "-", "."}

\* str.find: the first position of c in s, 0 if there is none
Find(s, c) ==
    IF \E i \in 1 .. Len(s) : s[i] = c
    THEN CHOOSE i \in 1 .. Len(s) : s[i] = c /\ \A j \in 1 .. i - 1 : s[j] # c
    ELSE 0

\* urllib.parse.urlparse, its scheme and netloc: a scheme is a letter and
\* scheme characters before the first ":"; a netloc is what follows "//"
\* up to the next "/", "?" or "#", and may be empty
urlparse(url) ==
    LET i == Find(url, ":")
        has_scheme ==
            /\ i > 1
            /\ url[1] \in Letters
            /\ \A k \in 1 .. i - 1 : url[k] \in scheme_chars
        rest == IF has_scheme THEN SubSeq(url, i + 1, Len(url)) ELSE url
        slashes == Len(rest) >= 2 /\ rest[1] = "/" /\ rest[2] = "/"
        ends == {k \in 3 .. Len(rest) : rest[k] \in {"/", "?", "#"}}
        delim == IF ends = {} THEN Len(rest) + 1
                 ELSE CHOOSE k \in ends : \A m \in ends : k <= m
    IN [scheme |-> IF has_scheme THEN Lower(SubSeq(url, 1, i - 1)) ELSE <<>>,
        netloc |-> IF slashes THEN SubSeq(rest, 3, delim - 1) ELSE <<>>,
        path |-> IF slashes THEN SubSeq(rest, delim, Len(rest)) ELSE rest]

\* "not next_url": None or ""
Falsy(next_url) == IsNull(next_url) \/ Val(next_url) = <<>>

_is_safe_next(next_url) ==
    IF Falsy(next_url) THEN TRUE
    ELSE LET parts == urlparse(Val(next_url)) IN
         /\ parts.scheme = <<>>
         /\ parts.netloc = <<>>
         /\ Val(next_url)[1] = "/"

_redirect_to_next(next_url, fallback) ==
    [status |-> 303,
     location |-> IF ~Falsy(next_url) /\ _is_safe_next(next_url)
                  THEN Val(next_url) ELSE fallback]

AccountPath == <<"/", "a", "c", "c", "o", "u", "n", "t">>

\* next or ""
OrEmpty(next) == IF IsNull(next) THEN <<>> ELSE Val(next)

\* request.session.get("user_id")
session_user_id == session.user_id

LoginPage(status, error, next, success) ==
    [status |-> status, template |-> "auth/login.html", error |-> error,
     next |-> OrEmpty(next), success |-> success]

RegisterPage(status, error, next) ==
    [status |-> status, template |-> "auth/register.html", error |-> error,
     next |-> OrEmpty(next)]

\* request.session["user_id"] = user.id; request.session["user"] = {...}
SignIn(user) ==
    session' = [session EXCEPT !.user_id = Some(user.id),
                               !.user = Some([id |-> user.id, email |-> user.email])]

login_form(next, reset) ==
    /\ view' = [op |-> "login_form", next |-> next,
                response |->
                    IF ~IsNull(session_user_id)
                    THEN _redirect_to_next(next, AccountPath)
                    ELSE LoginPage(200, "", next,
                                   IF ~IsNull(reset) /\ Val(reset) = 1
                                   THEN "Password updated. You can sign in now."
                                   ELSE "")]
    /\ UNCHANGED <<chapters, dbvars, workers, web>>

\* A login that does not look at the password of a known email.
login_post_any_password(email, password, next) ==
    /\ UNCHANGED <<chapters, dbvars, workers, read_events>>
    /\ LET email_norm == NormEmail(email)
           found == UserByEmail(email_norm)
           Reply(response) ==
               view' = [op |-> "login_post", next |-> next, email |-> email,
                        password |-> password, response |-> response]
       IN
       IF email_norm = <<>> \/ password = "" THEN
           /\ Reply(LoginPage(400, "Email and password are required.", next, ""))
           /\ UNCHANGED session
       ELSE IF found = {} THEN
           /\ Reply(LoginPage(400, "Invalid credentials.", next, ""))
           /\ UNCHANGED session
       ELSE
           /\ SignIn(CHOOSE u \in found : TRUE)
           /\ Reply(_redirect_to_next(next, AccountPath))

login_post(email, password, next) ==
    /\ UNCHANGED <<chapters, dbvars, workers, read_events>>
    /\ LET email_norm == NormEmail(email)
           found == UserByEmail(email_norm)
           Reply(response) ==
               view' = [op |-> "login_post", next |-> next, email |-> email,
                        password |-> password, response |-> response]
       IN
       IF email_norm = <<>> \/ password = "" THEN
           /\ Reply(LoginPage(400, "Email and password are required.", next, ""))
           /\ UNCHANGED session
       ELSE IF found = {}
               \/ ~verify_password(password, (CHOOSE u \in found : TRUE).password_hash) THEN
           /\ Reply(LoginPage(400, "Invalid credentials.", next, ""))
           /\ UNCHANGED session
       ELSE
           /\ SignIn(CHOOSE u \in found : TRUE)
           /\ Reply(_redirect_to_next(next, AccountPath))

register_form(next) ==
    /\ view' = [op |-> "register_form", next |-> next,
                response |->
                    IF ~IsNull(session_user_id)
                    THEN _redirect_to_next(next, AccountPath)
                    ELSE RegisterPage(200, "", next)]
    /\ UNCHANGED <<chapters, dbvars, workers, web>>

register_post(email, password, next) ==
    /\ UNCHANGED <<chapters, password_resets, now, next_token, redeemed, workers,
                   read_events>>
    /\ LET email_norm == NormEmail(email)
           Reply(response) ==
               view' = [op |-> "register_post", next |-> next, email |-> email,
                        password |-> password, response |-> response]
           Reject(error) ==
               /\ Reply(RegisterPage(400, error, next))
               /\ UNCHANGED <<users, session>>
       IN
       IF email_norm = <<>> \/ password = "" THEN
           Reject("Email and password are required.")
       ELSE IF Len(password) < MIN_PASSWORD_LEN THEN
           Reject("Password must be at least 8 characters.")
       ELSE IF UserByEmail(email_norm) # {} THEN
           Reject("Email already in use.")
       ELSE
           LET user == [id |-> Cardinality(users) + 1, email |-> email_norm,
                        password_hash |-> hash_password(password)]
           IN
           /\ users' = users \cup {user}
           /\ SignIn(user)
           /\ Reply(_redirect_to_next(next, AccountPath))

\* A logout that removes only the user_id key.
logout_keeps_user ==
    /\ session' = [session EXCEPT !.user_id = NULL]
    /\ view' = [op |-> "logout", response |-> [status |-> 303, location |-> <<"/">>]]
    /\ UNCHANGED <<chapters, dbvars, workers, read_events>>

logout ==
    /\ session' = [session EXCEPT !.user_id = NULL, !.user = NULL]
    /\ view' = [op |-> "logout", response |-> [status |-> 303, location |-> <<"/">>]]
    /\ UNCHANGED <<chapters, dbvars, workers, read_events>>

NextChars == {"/", ":", "a"}
EvilUrl ==
    <<"h", "t", "t", "p", ":", "/", "/", "e", "v", "i", "l", ".",
      "e", "x", "a", "m", "p", "l", "e", "/", "x">>
SlashesUrl ==
    <<"/", "/", "/", "e", "v", "i", "l", ".", "e", "x", "a", "m", "p", "l", "e", "/", "x">>
NextInputs ==
    {NULL}
    \cup {Some(s) : s \in UNION {[1 .. n -> NextChars] : n \in 0 .. MaxNextLen}}
    \cup {Some(EvilUrl), Some(SlashesUrl), Some(AccountPath)}
AuthEmails == { <<" ", "A">>, <<"e">>, <<>> }
AuthPasswords == {OldPassword, "short", ""}

InitAuth == InitReset

LoginForm == \E n \in NextInputs, r \in {NULL, Some(1)} : login_form(n, r)
LoginPost ==
    \E e \in AuthEmails, p \in AuthPasswords, n \in NextInputs : login_post(e, p, n)
RegisterForm == \E n \in NextInputs : register_form(n)
RegisterPost ==
    \E e \in AuthEmails, p \in AuthPasswords, n \in NextInputs : register_post(e, p, n)
Logout == logout

NextAuth == LoginForm \/ LoginPost \/ RegisterForm \/ RegisterPost \/ Logout

SpecAuth == InitAuth /\ [][NextAuth]_vars

(***************************************************************************)
(* Properties of the return path.                                          *)
(***************************************************************************)
IsAuthRedirect ==
    /\ ViewOp(view) \in {"login_form", "login_post", "register_form", "register_post"}
    /\ view.response.status = 303

\* C8: the redirect after login, after registration and from the login or
\* register form of a logged-in browser goes to the next value when that
\* value has no scheme, no network-location component and starts with "/",
\* and to /account for every other value.  A reference has a
\* network-location component when its part after the scheme opens with
\* "//", the mark that introduces the authority, empty or not.
C8_RedirectOnlyToLocalPath ==
    LET HasScheme(url) == urlparse(url).scheme # <<>>
        AfterScheme(url) ==
            IF HasScheme(url) THEN SubSeq(url, Find(url, ":") + 1, Len(url)) ELSE url
        HasNetworkLocation(url) ==
            /\ Len(AfterScheme(url)) >= 2
            /\ AfterScheme(url)[1] = "/"
            /\ AfterScheme(url)[2] = "/"
        IsLocalPath(next) ==
            /\ ~Falsy(next)
            /\ ~HasScheme(Val(next))
            /\ ~HasNetworkLocation(Val(next))
            /\ Val(next)[1] = "/"
    IN
    IsAuthRedirect =>
        view.response.location =
            IF IsLocalPath(view.next) THEN Val(view.next) ELSE AccountPath

\* Login, registration and logout with the return path left out or /account.
LoginPasswords == AuthPasswords \cup {"newpass01"}
LoginNexts == {NULL, Some(AccountPath)}

LoginSubmit ==
    \E e \in AuthEmails, p \in LoginPasswords, n \in LoginNexts : login_post(e, p, n)
RegisterSubmit ==
    \E e \in AuthEmails, p \in LoginPasswords, n \in LoginNexts : register_post(e, p, n)

NextLogin == LoginSubmit \/ RegisterSubmit \/ Logout

SpecLogin == InitAuth /\ [][NextLogin]_vars

\* C27: login_post sets the session's user_id to a user U only when the
\* submitted email, trimmed and lower-cased, is U's email and the submitted
\* password is the one U's current hash was made of, and then it answers
\* with a redirect; every other login (a missing field, an unknown email,
\* a wrong password) is answered 400 and leaves the session unchanged.
C27_LoginOnlyWithCredentials ==
    [][(/\ ViewOp(view') = "login_post"
        /\ login_post(view'.email, view'.password, view'.next)) =>
              LET e == view'.email
                  p == view'.password
                  matching == {u \in users : /\ u.email = Lower(Strip(e))
                                             /\ u.password_hash = <<"hash", p>>}
              IN /\ matching # {} =>
                     /\ view'.response.status = 303
                     /\ \E u \in matching : session'.user_id = Some(u.id)
                 /\ matching = {} =>
                     /\ view'.response.status = 400
                     /\ session' = session
                 /\ \A u \in users :
                       (session'.user_id = Some(u.id) /\ session' # session)
                           => u \in matching
      ]_vars

C27_Witness ==
    /\ ViewOp(view) = "login_post"
    /\ view.response.status = 400
    /\ view.password = "short"
    /\ \E u \in users : u.email = Lower(Strip(view.email))
    /\ ~IsNull(session.user_id)

(***************************************************************************)
(* app/routers/telemetry.py: mark_read.  read_events has the unique        *)
(* constraint uq_user_chapter on (user_id, chapter_id) and foreign keys to *)
(* users and chapters.  The handler runs INSERT ... ON CONFLICT DO NOTHING *)
(* and then commits; the statement waits while another transaction holds   *)
(* an uncommitted row with the same key.                                   *)
(***************************************************************************)
ReadRow(uid, chapter_id) == [user_id |-> uid, chapter_id |-> chapter_id]

ReadOk == [status |-> 200, ok |-> TRUE, skip |-> ""]
ReadSkipped == [status |-> 200, ok |-> TRUE, skip |-> "anon"]

\* the foreign keys of a new row hold
ForeignKeysHold(uid, chapter_id) ==
    /\ \E u \in users : u.id = uid
    /\ \E c \in chapters : c.id = chapter_id

\* a committed row has the key of the new row
conflict_ignored(uid, chapter_id) == FALSE

conflict(uid, chapter_id) == BagIn(ReadRow(uid, chapter_id), read_events)

\* another transaction has inserted the key and not committed yet
PendingInsert(uid, chapter_id) ==
    \E h \in Running :
        /\ h.op = "mark_read" /\ h.at = "commit" /\ h.inserted
        /\ h.user_id = uid /\ h.chapter_id = chapter_id

\* A mark_read that records an anonymous request for the first user.
mark_read_begin_anon_recorded(chapter_id, carry) ==
    /\ WorkerFree
    /\ UNCHANGED <<chapters, dbvars, web>>
    /\ LET uid == IF IsNull(session_user_id) THEN Some(1) ELSE session_user_id IN
       /\ Start([op |-> "mark_read", at |-> "execute", user_id |-> Val(uid),
                 chapter_id |-> chapter_id, carry |-> carry, inserted |-> FALSE])
       /\ view' = NoView

\* mark_read up to the statement: the session lookup
mark_read_begin(chapter_id, carry) ==
    /\ WorkerFree
    /\ UNCHANGED <<chapters, dbvars, web>>
    /\ LET uid == session_user_id IN
       IF IsNull(uid) THEN
           /\ view' = [op |-> "mark_read", uid |-> uid, chapter_id |-> chapter_id,
                       carry |-> carry, response |-> ReadSkipped]
           /\ UNCHANGED workers
       ELSE
           /\ Start([op |-> "mark_read", at |-> "execute", user_id |-> Val(uid),
                     chapter_id |-> chapter_id, carry |-> carry, inserted |-> FALSE])
           /\ view' = NoView

\* chapter_id is a Python int, without a width: the request value is
\* carry * 2^31 + chapter_id with 0 <= chapter_id < 2^31.  A Column(Integer)
\* holds it when it is at most 2^31 - 1, that is when carry is 0.
FitsInteger(chapter_id, carry) == carry = 0

\* db.execute(stmt): a foreign-key error sends the handler through the
\* fallback insert, which fails the same way, and on to the response
mark_read_execute(h) ==
    /\ h.op = "mark_read" /\ h.at = "execute"
    /\ UNCHANGED <<chapters, dbvars, web>>
    /\ IF ~FitsInteger(h.chapter_id, h.carry) THEN
           \* DataError from the upsert, and again from the fallback commit,
           \* where only IntegrityError is caught
           /\ End(h)
           /\ view' = [op |-> "mark_read", uid |-> Some(h.user_id),
                       chapter_id |-> h.chapter_id, carry |-> h.carry,
                       response |-> ServerError]
       ELSE IF ~ForeignKeysHold(h.user_id, h.chapter_id) THEN
           /\ End(h)
           /\ view' = [op |-> "mark_read", uid |-> Some(h.user_id),
                       chapter_id |-> h.chapter_id, carry |-> h.carry,
                       response |-> ReadOk]
       ELSE
           /\ ~PendingInsert(h.user_id, h.chapter_id)
           /\ Advance(h, [h EXCEPT !.at = "commit",
                                   !.inserted = ~conflict(h.user_id, h.chapter_id)])
           /\ view' = NoView

\* db.commit() and the response
mark_read_commit(h) ==
    /\ h.op = "mark_read" /\ h.at = "commit"
    /\ read_events' =
          IF h.inserted
          THEN read_events (+) SetToBag({ReadRow(h.user_id, h.chapter_id)})
          ELSE read_events
    /\ End(h)
    /\ view' = [op |-> "mark_read", uid |-> Some(h.user_id),
                chapter_id |-> h.chapter_id, carry |-> h.carry, response |-> ReadOk]
    /\ UNCHANGED <<chapters, dbvars, session>>

ReadChapterIds == {1, 2}
ReadCarries == {0, 1}
ReadEmails == {EmailA, EmailB}

InitRead ==
    /\ chapters = {[id |-> 1, slug |-> <<"a">>, display_order |-> Some(1)]}
    /\ view = NoView
    /\ users = { [id |-> 1, email |-> EmailA, password_hash |-> hash_password(OldPassword)],
                 [id |-> 2, email |-> EmailB, password_hash |-> hash_password(OldPassword)] }
    /\ password_resets = {}
    /\ now = 0
    /\ next_token = 1
    /\ redeemed = [t \in Tokens |-> 0]
    /\ IdleWorkers
    /\ session = EmptySession
    /\ read_events = EmptyBag

LoginRead == \E e \in ReadEmails : login_post(e, OldPassword, NULL)
MarkReadBegin == \E c \in ReadChapterIds, k \in ReadCarries : mark_read_begin(c, k)
MarkReadExecute == \E h \in Running : mark_read_execute(h)
MarkReadCommit == \E h \in Running : mark_read_commit(h)

NextRead == LoginRead \/ Logout \/ MarkReadBegin \/ MarkReadExecute \/ MarkReadCommit

SpecRead == InitRead /\ [][NextRead]_vars

(***************************************************************************)
(* Properties of read events.                                              *)
(***************************************************************************)
\* C9: read_events never holds two rows for one (user_id, chapter_id)
\* pair, and when a mark_read call of a logged-in user for a chapter has
\* been answered it holds exactly one row for the pair, whatever other
\* mark_read calls ran before it or are running beside it.
C9_ExactlyOneReadEvent ==
    /\ \A row \in BagToSet(read_events) : CopiesIn(row, read_events) = 1
    /\ (/\ ViewOp(view) = "mark_read"
        /\ ~IsNull(view.uid)
        /\ view.carry = 0
        /\ \E c \in chapters : c.id = view.chapter_id) =>
           CopiesIn(ReadRow(Val(view.uid), view.chapter_id), read_events) = 1

\* C17: every mark_read request is answered 200 with ok = true.
C17_AlwaysOk ==
    ViewOp(view) = "mark_read" =>
        /\ view.response.status = 200
        /\ view.response.ok

\* C26: a mark_read request whose session has no user_id writes nothing:
\* read_events and every other table are unchanged, no statement is left
\* to run, and the response is {ok: true, skip: "anon"} with status 200.
C26_AnonymousMarkReadWritesNothing ==
    [][\A c \in ReadChapterIds, k \in ReadCarries :
          (IsNull(session.user_id) /\ mark_read_begin(c, k)) =>
              /\ read_events' = read_events
              /\ users' = users /\ chapters' = chapters
              /\ inflight' = inflight
              /\ view'.response = [status |-> 200, ok |-> TRUE, skip |-> "anon"]
      ]_vars

C26_Witness ==
    /\ ViewOp(view) = "mark_read"
    /\ IsNull(view.uid)
    /\ view.response.skip = "anon"
    /\ IsNull(session.user_id)
    /\ read_events # EmptyBag

C9_Witness ==
    /\ ViewOp(view) = "mark_read"
    /\ ~IsNull(view.uid)
    /\ CopiesIn(ReadRow(Val(view.uid), view.chapter_id), read_events) = 1
    /\ \E h \in Running :
          /\ h.op = "mark_read" /\ h.at = "execute"
          /\ h.user_id = Val(view.uid) /\ h.chapter_id = view.chapter_id


(***************************************************************************)
(* app/utils/authz.py and the /admin routes.                               *)
(*                                                                         *)
(* The package app/routers/admin exports the router that main.py includes; *)
(* its routes check require_admin before the handler runs.  The route      *)
(* POST /admin/uploads/presign is declared on the application itself, in   *)
(* main.py, before the admin router is included: a request for that path   *)
(* is served by main.py's presign_upload.                                  *)
(***************************************************************************)
\* (os.getenv("ADMIN_EMAIL") or default).strip().lower()
ADMIN_EMAIL == NormEmail(<<" ", "A">>)

\* urllib.parse.quote with safe = "/": letters, digits and _.-~/ are kept,
\* every other character becomes its percent escape
PercentEscape(c) ==
    IF c = " " THEN <<"%", "2", "0">>
    ELSE IF c = ":" THEN <<"%", "3", "A">>
    ELSE IF c = "?" THEN <<"%", "3", "F">>
    ELSE <<"%", "2", "5">>

RECURSIVE quote(_)
quote(s) ==
    IF s = <<>> THEN <<>>
    ELSE (IF Head(s) \in Letters \cup Digits \cup {"_", ".", "-", "~", "/"}
          THEN <<Head(s)>> ELSE PercentEscape(Head(s))) \o quote(Tail(s))

\* request.session.get("user")
session_user == session.user

Forbidden == [status |-> 403, detail |-> "Forbidden"]

\* The variant that lets every logged-in user through.
require_admin_any_user(path) ==
    IF IsNull(session_user)
    THEN Some([status |-> 307, location |-> LoginPath,
               next |-> quote(IF path = <<>> THEN <<"/">> ELSE path)])
    ELSE NULL

\* NULL when the request may pass, else the response of the HTTPException
require_admin(path) ==
    IF IsNull(session_user)
    THEN Some([status |-> 307, location |-> LoginPath,
               next |-> quote(IF path = <<>> THEN <<"/">> ELSE path)])
    ELSE IF NormEmail(Val(session_user).email) # ADMIN_EMAIL
    THEN Some(Forbidden)
    ELSE NULL

AdminPrefix == <<"/", "a", "d", "m", "i", "n">>
DashboardPath == AdminPrefix \o <<"/", "d", "a", "s", "h", "b", "o", "a", "r", "d">>
ChaptersPrefix == AdminPrefix \o <<"/", "c", "h", "a", "p", "t", "e", "r", "s">>
CreatePath == ChaptersPrefix \o <<"/", "c", "r", "e", "a", "t", "e">>
DigitOf(i) == <<"0", "1", "2", "3", "4", "5", "6", "7", "8", "9">>[i + 1]
UpdatePath(chapter_id) ==
    ChaptersPrefix \o <<"/", DigitOf(chapter_id)>> \o <<"/", "u", "p", "d", "a", "t", "e">>
UploadPath == AdminPrefix \o <<"/", "u", "p", "l", "o", "a", "d", "s", "/", "u", "p", "l", "o", "a", "d">>

\* A route of the admin router: require_admin, then the handler.
admin_route(path, handler) ==
    IF IsNull(require_admin(path))
    THEN handler
    ELSE /\ view' = Val(require_admin(path))
         /\ UNCHANGED <<chapters, dbvars, workers, web>>

\* admin/router.py, dashboard (the chapters it lists are left out)
dashboard ==
    /\ view' = [status |-> 200, template |-> "admin/dashboard.html"]
    /\ UNCHANGED <<chapters, dbvars, workers, web>>

\* What the object store integration does for one request: it works, the
\* S3 environment variables are not all set, or the boto3 call raises.
S3Outcomes == {"ok", "env_missing", "call_failed"}

\* admin/router.py, upload_via_server: _s3_client_from_env raises
\* HTTPException(500), put_object succeeds or raises
upload_via_server(key, s3) ==
    /\ view' = IF s3 = "env_missing"
               THEN [status |-> 500, detail |-> "S3 env not fully configured"]
               ELSE IF s3 = "call_failed"
               THEN [status |-> 500, detail |-> "S3 upload failed: <text of the exception>"]
               ELSE [status |-> 200, key |-> key, public_url |-> key]
    /\ UNCHANGED <<chapters, dbvars, workers, web>>

\* main.py, presign_upload: key is payload["key"].strip(); _presign_put
\* returns, or raises RuntimeError from _s3_client or from the signing
\* call, and the handler answers with str(e)
presign_upload(key, s3) ==
    /\ view' = IF key = <<>> THEN [status |-> 400, error |-> "Missing key"]
               ELSE IF s3 = "env_missing"
               THEN [status |-> 500,
                     error |-> "S3 env is missing. Check S3_REGION, S3_ENDPOINT, S3_ACCESS_KEY, S3_SECRET_KEY, S3_BUCKET."]
               ELSE IF s3 = "call_failed"
               THEN [status |-> 500, error |-> "Presign failed: <text of the exception>"]
               ELSE [status |-> 200, upload_url |-> key, public_url |-> key]
    /\ UNCHANGED <<chapters, dbvars, workers, web>>

AdminForms ==
    { [title |-> <<"A">>, slug |-> NULL],
      [title |-> <<"A">>, slug |-> Some(<<"b", " ">>)] }
AdminOrders == { FormBlank, FormInt(1) }
UploadKeys == { <<>>, <<"k">> }

InitAdmin == InitReset

AdminDashboard == admin_route(DashboardPath, dashboard)
AdminChapterCreate ==
    \E f \in AdminForms, d \in AdminOrders :
        admin_route(CreatePath, chapter_create(f.title, f.slug, d))
AdminChapterUpdate ==
    \E i \in 1 .. MaxChapters, f \in AdminForms, d \in AdminOrders :
        admin_route(UpdatePath(i), chapter_update(i, f.title, f.slug, d))
AdminUpload ==
    \E k \in UploadKeys \ {<<>>}, o \in S3Outcomes :
        admin_route(UploadPath, upload_via_server(k, o))
PresignUpload == \E k \in UploadKeys, o \in S3Outcomes : presign_upload(Strip(k), o)

NextAdmin ==
    \/ LoginRead \/ Logout
    \/ AdminDashboard \/ AdminChapterCreate \/ AdminChapterUpdate \/ AdminUpload
    \/ PresignUpload

SpecAdmin == InitAdmin /\ [][NextAdmin]_vars

(***************************************************************************)
(* Properties of the admin check.                                          *)
(***************************************************************************)
GuardedPaths ==
    {DashboardPath, CreatePath, UploadPath} \cup {UpdatePath(i) : i \in 1 .. MaxChapters}

\* C15: a request to a route behind require_admin reaches the handler only
\* when the session holds a user whose email, trimmed and lower-cased, is
\* the configured admin email; with no session user the answer is a
\* redirect to /auth/login whose next is the current path, and with a
\* session user of another email it is 403 Forbidden and not a redirect.
C15_AdminOnly ==
    [][\A p \in GuardedPaths :
          LET RouteAt ==
                  \/ p = DashboardPath /\ AdminDashboard
                  \/ p = CreatePath /\ AdminChapterCreate
                  \/ p = UploadPath /\ AdminUpload
                  \/ \E i \in 1 .. MaxChapters, f \in AdminForms, d \in AdminOrders :
                         /\ p = UpdatePath(i)
                         /\ admin_route(p, chapter_update(i, f.title, f.slug, d))
              anonymous == IsNull(session_user)
              is_admin == ~anonymous /\ Lower(Strip(Val(session_user).email)) = EmailA
          IN RouteAt =>
               /\ anonymous =>
                    view' = [status |-> 307, location |-> LoginPath, next |-> p]
               /\ (~anonymous /\ ~is_admin) =>
                    view' = [status |-> 403, detail |-> "Forbidden"]
               /\ (view'.status \notin {307, 403}) => is_admin
      ]_vars

C15_Witness ==
    /\ view = [status |-> 403, detail |-> "Forbidden"]
    /\ ~IsNull(session_user)
    /\ Val(session_user).email = EmailB

\* C16: a request to the admin dashboard, chapter_create, chapter_update,
\* the upload endpoint or the presign endpoint from a session that is not
\* the admin's changes no chapter and returns no signed URL; it is answered
\* with a redirect to login when the session is anonymous and with 403 when
\* it holds another user.
C16_NoSilentAdminSuccess ==
    [][LET anonymous == IsNull(session_user)
           is_admin == ~anonymous /\ Lower(Strip(Val(session_user).email)) = EmailA
       IN (/\ ~is_admin
           /\ \/ AdminDashboard \/ AdminChapterCreate \/ AdminChapterUpdate
              \/ AdminUpload \/ PresignUpload)
          => /\ chapters' = chapters
             /\ "upload_url" \notin DOMAIN view'
             /\ anonymous => ("next" \in DOMAIN view' /\ view'.location = LoginPath)
             /\ ~anonymous => view'.status = 403
      ]_vars

\* C24: when the object store integration fails, the presign and upload
\* endpoints give the same answer whatever the cause: a step that answers
\* a failure of one cause is also a step that answers the other cause.
C24_GenericStorageFailure ==
    [][\A k \in UploadKeys \ {<<>>} :
          /\ presign_upload(k, "env_missing") <=> presign_upload(k, "call_failed")
          /\ admin_route(UploadPath, upload_via_server(k, "env_missing"))
                <=> admin_route(UploadPath, upload_via_server(k, "call_failed"))
      ]_vars

(***************************************************************************)
(* app/routers/admin/router.py: chapter_create and chapter_update running  *)
(* beside each other (several server processes on one database).  A        *)
(* handler reads the table for its checks, then db.commit() flushes its    *)
(* INSERT or UPDATE and commits; the unique constraint chapters_slug_key   *)
(* is tested by the database at that point.  Neither handler catches the   *)
(* IntegrityError of db.commit().                                          *)
(***************************************************************************)
\* The table without its unique constraint.
no_slug_key(slug, own_id) == FALSE

\* chapters_slug_key: another committed row holds the slug
chapters_slug_key(slug, own_id) == \E c \in chapters : c.slug = slug /\ c.id # own_id

\* chapter_create up to db.commit()
chapter_create_check(title, slug, display_order) ==
    /\ WorkerFree
    /\ UNCHANGED <<chapters, dbvars, web>>
    /\ LET final_slug == OrElse(SlugField(slug), slugify(title)) IN
       IF final_slug = <<>> THEN
           /\ view' = FormError("new", "Could not generate a slug from the title.")
           /\ UNCHANGED workers
       ELSE IF \E c \in chapters : c.slug = final_slug THEN
           /\ view' = FormError("new", "Slug already exists. Choose a different slug.")
           /\ UNCHANGED workers
       ELSE
           /\ Cardinality(chapters) + BagCardinality(inflight) < MaxChapters
           /\ Start([op |-> "chapter_create", slug |-> final_slug,
                     display_order |-> to_int_or_none(display_order)])
           /\ view' = NoView

\* db.add(ch); db.commit(); the redirect
chapter_create_commit(h) ==
    /\ h.op = "chapter_create"
    /\ End(h)
    /\ UNCHANGED <<dbvars, web>>
    /\ IF chapters_slug_key(h.slug, 0) THEN
           /\ view' = ServerError
           /\ UNCHANGED chapters
       ELSE
           /\ chapters' = chapters \cup
                  {[id |-> Cardinality(chapters) + 1, slug |-> h.slug,
                    display_order |-> h.display_order]}
           /\ view' = ToDashboard

\* chapter_update up to db.commit(); loaded is the slug of the row as read
chapter_update_check(chapter_id, title, slug, display_order) ==
    /\ WorkerFree
    /\ UNCHANGED <<chapters, dbvars, web>>
    /\ LET found == {c \in chapters : c.id = chapter_id} IN
       IF found = {} THEN
           /\ view' = NotFoundPage
           /\ UNCHANGED workers
       ELSE
           LET ch == CHOOSE c \in found : TRUE
               new_slug == OrElse(OrElse(SlugField(slug), slugify(title)), ch.slug)
           IN
           IF new_slug # ch.slug /\ \E c \in chapters : c.slug = new_slug THEN
               /\ view' = FormError("edit", "Slug is already in use.")
               /\ UNCHANGED workers
           ELSE
               /\ Start([op |-> "chapter_update", id |-> ch.id, slug |-> new_slug,
                         loaded |-> ch.slug,
                         display_order |-> to_int_or_none(display_order)])
               /\ view' = NoView

\* db.add(ch); db.commit(); the redirect.  The UPDATE sets the columns the
\* handler changed: the slug only when it differs from the slug read.
chapter_update_commit(h) ==
    /\ h.op = "chapter_update"
    /\ End(h)
    /\ UNCHANGED <<dbvars, web>>
    /\ LET row == CHOOSE c \in chapters : c.id = h.id IN
       IF h.slug # h.loaded /\ chapters_slug_key(h.slug, h.id) THEN
           /\ view' = ServerError
           /\ UNCHANGED chapters
       ELSE
           /\ chapters' = (chapters \ {row}) \cup
                  {[id |-> h.id,
                    slug |-> IF h.slug # h.loaded THEN h.slug ELSE row.slug,
                    display_order |-> h.display_order]}
           /\ view' = ToDashboard

SlugForms ==
    { [title |-> <<"A">>, slug |-> NULL],
      [title |-> <<"A">>, slug |-> Some(<<"b", " ">>)],
      [title |-> <<"!", "cjk">>, slug |-> NULL] }
SlugOrders == { FormBlank, FormInt(1) }

InitSlug == InitChapters

CreateCheck ==
    \E f \in SlugForms, d \in SlugOrders : chapter_create_check(f.title, f.slug, d)
CreateCommit == \E h \in Running : chapter_create_commit(h)
UpdateCheck ==
    \E i \in 1 .. MaxChapters, f \in SlugForms, d \in SlugOrders :
        chapter_update_check(i, f.title, f.slug, d)
UpdateCommit == \E h \in Running : chapter_update_commit(h)

NextSlug == CreateCheck \/ CreateCommit \/ UpdateCheck \/ UpdateCommit

SpecSlug == InitSlug /\ [][NextSlug]_vars

(***************************************************************************)
(* Properties of the slug.                                                 *)
(***************************************************************************)
\* C18: no two chapters have the same slug, and when a request commits a
\* slug that another request has committed since its check, its write is
\* refused and the table keeps the one chapter with that slug: after the
\* commit step of a request that writes a slug, exactly one chapter has it.
C18_SlugUnique ==
    [][/\ \A c1, c2 \in chapters' : c1.slug = c2.slug => c1.id = c2.id
       /\ \A h \in Running :
            (chapter_create_commit(h) \/ chapter_update_commit(h)) =>
               LET own == IF h.op = "chapter_update" THEN h.id ELSE 0
                   taken == \E c \in chapters : c.slug = h.slug /\ c.id # own
                   writes == h.op = "chapter_create" \/ h.slug # h.loaded
               IN writes =>
                     /\ taken => chapters' = chapters
                     /\ Cardinality({c \in chapters' : c.slug = h.slug}) = 1
      ]_vars

C18_Witness ==
    /\ view = ServerError
    /\ Cardinality(chapters) = 1
    /\ inflight = EmptyBag

\* C19: a chapter_create or chapter_update request whose slug is missing or
\* held by another chapter, at its check or at its commit, is answered with
\* the chapter form, status 400 and an error, and changes no chapter.
C19_BadSlugRerendersForm ==
    [][/\ \A f \in SlugForms, d \in SlugOrders :
            LET final_slug == OrElse(SlugField(f.slug), slugify(f.title))
                bad == final_slug = <<>> \/ \E c \in chapters : c.slug = final_slug
            IN (chapter_create_check(f.title, f.slug, d) /\ bad) =>
                  /\ view'.status = 400
                  /\ view'.template = "admin/chapter_form.html"
                  /\ chapters' = chapters
       /\ \A i \in 1 .. MaxChapters, f \in SlugForms, d \in SlugOrders :
            LET given == OrElse(SlugField(f.slug), slugify(f.title))
                bad == \E c, o \in chapters :
                          c.id = i /\ o.id # i /\ given # <<>> /\ o.slug = given
            IN (chapter_update_check(i, f.title, f.slug, d) /\ bad) =>
                  /\ view'.status = 400
                  /\ view'.template = "admin/chapter_form.html"
                  /\ chapters' = chapters
       /\ \A h \in Running :
            LET own == IF h.op = "chapter_update" THEN h.id ELSE 0
                taken == \E c \in chapters : c.slug = h.slug /\ c.id # own
                writes == h.op = "chapter_create" \/ h.slug # h.loaded
            IN ((chapter_create_commit(h) \/ chapter_update_commit(h))
                /\ writes /\ taken) =>
                  /\ view'.status = 400
                  /\ chapters' = chapters
      ]_vars

(***************************************************************************)
(* app/routers/auth.py: register_post requests running beside each other.  *)
(* The handler reads users for its check, then db.commit() flushes the     *)
(* INSERT; the unique constraint uq_users_email is tested by the database  *)
(* at that point and the handler does not catch its IntegrityError.  The   *)
(* requests come from one browser, so they share the session.              *)
(***************************************************************************)
\* uq_users_email: a committed row holds the email
uq_users_email(email_norm) == \E u \in users : u.email = email_norm

\* register_post up to db.commit()
register_post_check(email, password, next) ==
    /\ WorkerFree
    /\ UNCHANGED <<chapters, dbvars, web>>
    /\ LET email_norm == NormEmail(email)
           Reject(error) ==
               /\ view' = [op |-> "register_post", next |-> next, email |-> email,
                           password |-> password,
                           response |-> RegisterPage(400, error, next)]
               /\ UNCHANGED workers
       IN
       IF email_norm = <<>> \/ password = "" THEN
           Reject("Email and password are required.")
       ELSE IF Len(password) < MIN_PASSWORD_LEN THEN
           Reject("Password must be at least 8 characters.")
       ELSE IF UserByEmail(email_norm) # {} THEN
           Reject("Email already in use.")
       ELSE
           /\ Start([op |-> "register_post", email |-> email, email_norm |-> email_norm,
                     password |-> password, next |-> next])
           /\ view' = NoView

\* db.add(user); db.commit(); db.refresh(user); the session; the redirect
register_post_commit(h) ==
    /\ h.op = "register_post"
    /\ End(h)
    /\ UNCHANGED <<chapters, password_resets, now, next_token, redeemed, read_events>>
    /\ LET Reply(response) ==
               view' = [op |-> "register_post", next |-> h.next, email |-> h.email,
                        password |-> h.password, response |-> response]
       IN
       IF uq_users_email(h.email_norm) THEN
           /\ Reply(ServerError)
           /\ UNCHANGED <<users, session>>
       ELSE
           LET user == [id |-> Cardinality(users) + 1, email |-> h.email_norm,
                        password_hash |-> hash_password(h.password)]
           IN
           /\ users' = users \cup {user}
           /\ SignIn(user)
           /\ Reply(_redirect_to_next(h.next, AccountPath))

RegisterEmails == { <<"e">>, <<"e", " ">>, <<" ", "A">>, <<"B">>, <<>> }
RegisterPasswords == { OldPassword, "newpass01", "short" }

InitRegister ==
    /\ chapters = {}
    /\ view = NoView
    /\ users = { [id |-> 1, email |-> EmailA, password_hash |-> hash_password(OldPassword)] }
    /\ password_resets = {}
    /\ now = 0
    /\ next_token = 1
    /\ redeemed = [t \in Tokens |-> 0]
    /\ IdleWorkers
    /\ NoSession

RegisterCheck ==
    \E e \in RegisterEmails, p \in RegisterPasswords : register_post_check(e, p, NULL)
RegisterCommit == \E h \in Running : register_post_commit(h)

NextRegister == RegisterCheck \/ RegisterCommit \/ Logout

SpecRegister == InitRegister /\ [][NextRegister]_vars

(***************************************************************************)
(* Properties of registration.                                             *)
(***************************************************************************)
\* C22: no two users have the same normalized email, and a register_post
\* for an email that is in use, at its check or at its commit, is answered
\* with the registration form, status 400 and 'Email already in use.',
\* creates no user and leaves the session as it is.
C22_UniqueEmail ==
    [][/\ \A u1, u2 \in users' :
            Lower(Strip(u1.email)) = Lower(Strip(u2.email)) => u1 = u2
       /\ LET in_use(e) == \E u \in users : u.email = Lower(Strip(e))
              refused ==
                  /\ ViewOp(view') = "register_post"
                  /\ view'.response.status = 400
                  /\ view'.response.error = "Email already in use."
                  /\ users' = users
                  /\ session' = session
          IN /\ \A e \in RegisterEmails :
                   (/\ in_use(e)
                    /\ register_post_check(e, OldPassword, NULL)) => refused
             /\ \A h \in Running :
                   (in_use(h.email) /\ register_post_commit(h)) => refused
      ]_vars

\* C22 without the answer given to a request that loses the race: no two
\* users share a normalized email, and a request whose email is in use
\* creates no user and leaves the session as it is.
C22_UniqueEmailOnly ==
    [][/\ \A u1, u2 \in users' :
            Lower(Strip(u1.email)) = Lower(Strip(u2.email)) => u1 = u2
       /\ \A h \in Running :
            ((\E u \in users : u.email = Lower(Strip(h.email))) /\ register_post_commit(h))
            => (users' = users /\ session' = session)
      ]_vars

(***************************************************************************)
(* app/routers/auth.py: password reset and login together.  The reset      *)
(* handlers run as in the reset specification, with two acceptable new     *)
(* passwords and without the clock; login_post reads the users table.      *)
(* A reset link is requested while no other handler runs: the overlap of   *)
(* forgot_submit with a redemption is the subject of the reset             *)
(* specification.                                                          *)
(***************************************************************************)
RedeemForms ==
    { [password |-> "newpass01", password_confirm |-> "newpass01"],
      [password |-> "newpass02", password_confirm |-> "newpass02"] }
RedeemPasswords == { OldPassword, "newpass01", "newpass02" }

InitRedeem == InitReset

RedeemForgot == IdleWorkers /\ ForgotBegin

RedeemBegin ==
    /\ Quiet
    /\ \E t \in Tokens, f \in RedeemForms :
          reset_submit_begin(Some(t), f.password, f.password_confirm)
RedeemLogin ==
    /\ Quiet
    /\ \E e \in ReadEmails, p \in RedeemPasswords : login_post(e, p, NULL)

NextRedeem ==
    \/ RedeemForgot \/ ForgotCommit
    \/ RedeemBegin \/ ResetCommit \/ ResetCleanup \/ ResetFinish
    \/ RedeemLogin \/ Deliver

SpecRedeem == InitRedeem /\ [][NextRedeem]_vars

(***************************************************************************)
(* Properties of redemption and login.                                     *)
(***************************************************************************)
\* C25: of the reset_submit requests that carry one token, at most one
\* changes the user's password: a redemption of a token that has been
\* redeemed before leaves the users table as it is.
C25_SingleUseUnderRace ==
    [][\A t \in Tokens :
          (redeemed[t] >= 1 /\ redeemed'[t] > redeemed[t]) => users' = users
      ]_vars

\* C30: a redemption for user U with password P sets U's password hash to
\* the hash of P and changes no other user; and login_post with U's email
\* succeeds exactly with the password of U's last redemption (the password
\* U registered with when there was none), so it succeeds with P and fails
\* with the password before the reset until the password changes again.
C30_LoginAfterReset ==
    [][/\ \A h \in Running :
            reset_submit_commit(h) =>
               \A u \in users :
                  \E v \in users' :
                     /\ v.id = u.id /\ v.email = u.email
                     /\ v.password_hash =
                           IF /\ u.id = h.user_id
                              /\ redeemed'[Val(h.token)] > redeemed[Val(h.token)]
                           THEN <<"hash", h.password>> ELSE u.password_hash
       /\ \A u \in users, p \in RedeemPasswords :
            login_post(u.email, p, NULL) =>
               /\ (u.password_hash = <<"hash", p>>) =>
                     (view'.response.status = 303
                      /\ session'.user_id = Some(u.id))
               /\ (u.password_hash # <<"hash", p>>) =>
                     (view'.response.status = 400 /\ session' = session)
      ]_vars

C30_Witness ==
    /\ ViewOp(view) = "login_post"
    /\ view.password = "newpass01"
    /\ view.response.status = 303
    /\ \E r \in password_resets : ~IsNull(r.used_at) /\ redeemed[r.token] > 0
    /\ \E u \in users : u.password_hash = <<"hash", "newpass01">>

(***************************************************************************)
(* The browser session across the site: login, registration and logout     *)
(* (app/routers/auth.py), the account page (app/routers/account.py), the   *)
(* chapter gate (app/routers/chapters.py) behind UserAttachMiddleware      *)
(* (app/main.py), and mark_read (app/routers/telemetry.py).                *)
(***************************************************************************)
\* A middleware that attaches a user to every request.
UserAttachAnyUser ==
    IF users = {} THEN NULL
    ELSE LET first == CHOOSE u \in users : \A v \in users : u.id <= v.id
         IN Some([id |-> first.id, email |-> first.email])

\* UserAttachMiddleware.dispatch: request.state.user
UserAttachMiddleware ==
    LET uid == session_user_id
        row == IF IsNull(uid) THEN {} ELSE {u \in users : u.id = Val(uid)}
    IN IF row = {} THEN NULL
       ELSE Some([id |-> (CHOOSE u \in row : TRUE).id,
                  email |-> (CHOOSE u \in row : TRUE).email])

\* A lookup that finds a user for every request.
_me_any_user ==
    IF users = {} THEN NULL
    ELSE Some(CHOOSE u \in users : \A v \in users : u.id <= v.id)

\* _me(request, db): the row of the session's user_id, or None
_me ==
    LET uid == session_user_id IN
    IF IsNull(uid) THEN NULL
    ELSE LET row == {u \in users : u.id = Val(uid)} IN
         IF row = {} THEN NULL ELSE Some(CHOOSE u \in row : TRUE)

\* GET /account.  The read events of the page are the user's rows; the
\* LIMIT 15 is above the number of chapters a user can have read here.
account_home ==
    /\ UNCHANGED <<chapters, dbvars, workers, web>>
    /\ LET me == _me IN
       view' = [op |-> "account_home",
                response |->
                    IF IsNull(me)
                    THEN [status |-> 303, location |-> LoginPath, next |-> AccountPath]
                    ELSE [status |-> 200, template |-> "account/index.html",
                          me |-> Val(me),
                          events |-> {r \in BagToSet(read_events) :
                                          r.user_id = Val(me).id}]]

GatedOrder == gate_threshold + 1
SessionEmails == { <<" ", "A">>, <<"b">>, <<"e">> }
SessionPasswords == { OldPassword, "short" }
SessionSlugs == { <<"a">>, <<"g">> }

InitSession ==
    /\ chapters = { [id |-> 1, slug |-> <<"a">>, display_order |-> Some(1)],
                    [id |-> 2, slug |-> <<"g">>, display_order |-> Some(GatedOrder)] }
    /\ view = NoView
    /\ users = { [id |-> 1, email |-> EmailA, password_hash |-> hash_password(OldPassword)],
                 [id |-> 2, email |-> EmailB, password_hash |-> hash_password(OldPassword)] }
    /\ password_resets = {}
    /\ now = 0
    /\ next_token = 1
    /\ redeemed = [t \in Tokens |-> 0]
    /\ IdleWorkers
    /\ NoSession

SessionLogin ==
    \E e \in SessionEmails, p \in SessionPasswords : login_post(e, p, NULL)
SessionRegister ==
    \E e \in SessionEmails, p \in SessionPasswords : register_post(e, p, NULL)
AccountHome == account_home
SessionChapter ==
    \E s \in SessionSlugs, a \in BOOLEAN :
        show_chapter(s, ~IsNull(UserAttachMiddleware), a)

\* the browser sends one mark_read at a time
SessionMarkRead ==
    /\ IdleWorkers
    /\ \E c \in ReadChapterIds : mark_read_begin(c, 0)

NextSession ==
    \/ SessionLogin \/ SessionRegister \/ Logout \/ AccountHome \/ SessionChapter
    \/ SessionMarkRead \/ MarkReadExecute \/ MarkReadCommit

SpecSession == InitSession /\ [][NextSession]_vars

(***************************************************************************)
(* Properties of the session.                                              *)
(***************************************************************************)
\* C23: account_home renders the reading-history page only for a session
\* whose user_id is the id of an existing user, with that user's row and
\* read events; every other request is redirected (303) to /auth/login
\* with next=/account and the response carries no account data.
C23_AccountNeedsUser ==
    [][account_home =>
          LET owner == {u \in users : session.user_id = Some(u.id)} IN
          IF owner = {}
          THEN view'.response =
                   [status |-> 303, location |-> LoginPath, next |-> AccountPath]
          ELSE /\ view'.response.status = 200
               /\ view'.response.template = "account/index.html"
               /\ view'.response.me \in owner
               /\ \A r \in view'.response.events : r.user_id = view'.response.me.id
      ]_vars

C23_Witness ==
    /\ ViewOp(view) = "account_home"
    /\ view.response.status = 200
    /\ view.response.events # {}
    /\ \E r \in BagToSet(read_events) : r.user_id # view.response.me.id

\* C28: after any sequence of login, registration and logout the session
\* keys user_id and user are both absent or both present; when present,
\* user.id equals user_id and is the id of an existing user whose email is
\* user.email.  So the three login checks, request.state.user, the
\* session's user_id and the session's user, agree on whether and as whom
\* the browser is logged in.
C28_SessionKeysAgree ==
    /\ IsNull(session.user_id) <=> IsNull(session.user)
    /\ ~IsNull(session.user_id) =>
         /\ ~IsNull(session.user)
         /\ Val(session.user).id = Val(session.user_id)
         /\ \E u \in users : /\ u.id = Val(session.user_id)
                             /\ u.email = Val(session.user).email
    /\ LET by_state == ~IsNull(UserAttachMiddleware)
           by_user_id == ~IsNull(session_user_id)
           by_user == ~IsNull(session_user)
       IN /\ by_state = by_user_id
          /\ by_user_id = by_user
          /\ by_state => UserAttachMiddleware = session_user

C28_Witness ==
    /\ ~IsNull(session.user)
    /\ Val(session.user).email = EmailA
    /\ Cardinality(users) > 2
    /\ ViewOp(view) = "login_post"

\* C29: logout leaves the session without user_id and user, and from then
\* until a login or registration succeeds every request is anonymous: a
\* chapter whose display_order is above 5 is answered 401 or with the
\* redirect to the login page, the account page redirects to the login
\* page, and mark_read writes no read event and starts no statement.
C29_AnonymousAfterLogout ==
    [][/\ logout => session' = EmptySession
       /\ session = EmptySession =>
            /\ session' # session =>
                 /\ ViewOp(view') \in {"login_post", "register_post"}
                 /\ view'.response.status = 303
            /\ \A s \in SessionSlugs, a \in BOOLEAN :
                 (/\ show_chapter(s, ~IsNull(UserAttachMiddleware), a)
                  /\ \E c \in chapters : /\ c.slug = s
                                         /\ ~IsNull(c.display_order)
                                         /\ Val(c.display_order) > 5)
                 => \/ view' = [status |-> 401, detail |-> "Unauthorized"]
                    \/ view' = [status |-> 303, location |-> LoginPath,
                                next |-> ChapterPath(s)]
            /\ account_home =>
                 view'.response = [status |-> 303, location |-> LoginPath,
                                   next |-> AccountPath]
            /\ \A c \in ReadChapterIds :
                 mark_read_begin(c, 0) =>
                     /\ read_events' = read_events
                     /\ inflight' = inflight
      ]_vars

C29_Witness ==
    /\ session = EmptySession
    /\ view = [status |-> 303, location |-> LoginPath, next |-> ChapterPath(<<"g">>)]
    /\ read_events # EmptyBag
    /\ Cardinality(users) > 2

====
